---- MODULE Spec2Model ----
(***************************************************************************)
(* FH5 Telemetry: the packet decoder (ForzaDataPacket), the UDP receiver   *)
(* and its receive loop (TelemetryReceiver), the chart window              *)
(* (TelemetryChart), and the consumer side of the application              *)
(* (ForzaTelemetryApp: buffering, flush tick, CSV logging, buffer length,  *)
(* replay of a log).                                                       *)
(*                                                                         *)
(* Numbers.  Integer wire fields are decoded exactly (little-endian, fixed *)
(* width, two's complement).  A 32-bit float field keeps its width, its    *)
(* position and its byte order, but its four bytes are read as a signed    *)
(* fixed-point cell counting thousandths; every value that a                *)
(* transform turns into a Python float is held in the same unit.           *)
(***************************************************************************)
EXTENDS Integers, Sequences, FiniteSets, TLC

VARIABLES
    raw,            \* decoder harness: the bytes handed to ForzaDataPacket(data)
    result,         \* decoder harness: what the constructor + to_dict() produced
    running,        \* TelemetryReceiver._running
    sock,           \* TelemetryReceiver.sock: 0 is None, else a socket id
    thread,         \* TelemetryReceiver.thread: 0 is None, else a thread id
    pc,             \* per thread: where it stands in _listen_loop
    sockState,      \* per socket: "none", "open", "bound" or "closed"
    sockShut,       \* sockets whose read side shutdown() has ended
    queue,          \* data_received emissions queued for the consumer thread
    reported,       \* the messages the latest step reported (log, log_message)
    received,       \* the length of the datagram the latest step received, or -1
    nDatagrams,     \* datagrams the game has sent so far
    nFaults,        \* environment faults injected so far
    handedOff,      \* history: timestamp_ms of every Frame emitted, in order
    consumed,       \* history: timestamp_ms of every Frame buffer_data handled
    sample_count,   \* ForzaTelemetryApp.sample_count
    data_buffer,    \* ForzaTelemetryApp.data_buffer: chart key -> pending values
    charts,         \* ForzaTelemetryApp.charts: chart key -> TelemetryChart state
    timerActive,    \* ForzaTelemetryApp.update_timer is running
    logging_enabled, \* ForzaTelemetryApp.logging_enabled
    log_file,       \* ForzaTelemetryApp.log_file: "none" (None), "open", or
                    \* "closed" (a file object whose close() raised)
    csv_writer,     \* ForzaTelemetryApp.csv_writer is set
    fileRows,       \* the rows of the CSV file created last, as text fields
    logged,         \* history: <<timestamp_ms, written>> of every Frame ingested
                    \* while logging was enabled, since the file was created
    toggle_checked, \* btn_toggle_log.isChecked()
    replay_data,    \* ForzaTelemetryApp.replay_data: unset, or the rows loaded
    slider,         \* ForzaTelemetryApp.slider: unset, or its range and value
    window,         \* chart harness: one TelemetryChart
    fed,            \* chart harness: every value handed to add_values, in order
    fresh           \* chart harness: set_buffer_len was only called before the
                    \* first value was added

decodeVars == <<raw, result>>
recvVars == <<running, sock, thread, pc, sockState, sockShut>>
envVars == <<nDatagrams, nFaults>>
histVars == <<handedOff, consumed>>
logVars == <<logging_enabled, log_file, csv_writer, fileRows, logged>>
appVars == <<sample_count, data_buffer, charts, timerActive>>
replayVars == <<replay_data, slider>>
winVars == <<window, fed, fresh>>
restVars == <<toggle_checked, replayVars, winVars>>
vars == <<raw, result, running, sock, thread, pc, sockState, sockShut, queue,
          reported, received, nDatagrams, nFaults, handedOff, consumed,
          sample_count, data_buffer, charts, timerActive, logging_enabled,
          log_file, csv_writer, fileRows, logged, toggle_checked, replay_data,
          slider, window, fed, fresh>>

-----------------------------------------------------------------------------
(* Bounds of the model *)

MaxPacketLen == 326
MaxSeq == 2
MaxThreads == 2
MaxDatagrams == 2
MaxFaults == 1

-----------------------------------------------------------------------------
(* Schema: ForzaDataPacket.sled_props, dash_props, dash_format *)

sled_props == <<
    "is_race_on", "timestamp_ms",
    "engine_max_rpm", "engine_idle_rpm", "current_engine_rpm",
    "acceleration_x", "acceleration_y", "acceleration_z",
    "velocity_x", "velocity_y", "velocity_z",
    "angular_velocity_x", "angular_velocity_y", "angular_velocity_z",
    "yaw", "pitch", "roll",
    "norm_suspension_travel_FL", "norm_suspension_travel_FR",
    "norm_suspension_travel_RL", "norm_suspension_travel_RR",
    "tire_slip_ratio_FL", "tire_slip_ratio_FR",
    "tire_slip_ratio_RL", "tire_slip_ratio_RR",
    "wheel_rotation_speed_FL", "wheel_rotation_speed_FR",
    "wheel_rotation_speed_RL", "wheel_rotation_speed_RR",
    "wheel_on_rumble_strip_FL", "wheel_on_rumble_strip_FR",
    "wheel_on_rumble_strip_RL", "wheel_on_rumble_strip_RR",
    "wheel_in_puddle_FL", "wheel_in_puddle_FR",
    "wheel_in_puddle_RL", "wheel_in_puddle_RR",
    "surface_rumble_FL", "surface_rumble_FR",
    "surface_rumble_RL", "surface_rumble_RR",
    "tire_slip_angle_FL", "tire_slip_angle_FR",
    "tire_slip_angle_RL", "tire_slip_angle_RR",
    "tire_combined_slip_FL", "tire_combined_slip_FR",
    "tire_combined_slip_RL", "tire_combined_slip_RR",
    "suspension_travel_meters_FL", "suspension_travel_meters_FR",
    "suspension_travel_meters_RL", "suspension_travel_meters_RR",
    "car_ordinal", "car_class", "car_performance_index",
    "drivetrain_type", "num_cylinders" >>

dash_props == <<
    "position_x", "position_y", "position_z",
    "speed", "power", "torque",
    "tire_temp_FL", "tire_temp_FR",
    "tire_temp_RL", "tire_temp_RR",
    "boost", "fuel", "dist_traveled",
    "best_lap_time", "last_lap_time",
    "cur_lap_time", "cur_race_time",
    "lap_no", "race_pos",
    "accel", "brake", "clutch", "handbrake",
    "gear", "steer",
    "norm_driving_line", "norm_ai_brake_diff" >>

\* n copies of the format character c
Rep(c, n) == [k \in 1..n |-> c]

\* '<iI' 51*'f' 'iiiii' 17*'f' 'H' 'BBBBBB' 'bbb'
dash_format ==
    <<"i", "I">> \o Rep("f", 51) \o Rep("i", 5) \o Rep("f", 17)
        \o <<"H">> \o Rep("B", 6) \o Rep("b", 3)

get_props == sled_props \o dash_props

\* struct: the width in bytes of one format character (standard sizes, '<')
FieldWidth(c) ==
    CASE c \in {"i", "I", "f"} -> 4
      [] c = "H" -> 2
      [] c \in {"B", "b"} -> 1

\* struct: whether a format character is read as a signed number
FieldSigned(c) == c \in {"i", "f", "b"}

RECURSIVE SumWidths(_, _)
SumWidths(fmt, n) == IF n = 0 THEN 0 ELSE SumWidths(fmt, n - 1) + FieldWidth(fmt[n])

\* struct.calcsize
calcsize(fmt) == SumWidths(fmt, Len(fmt))

\* the offset (0-based) of field k of dash_format in the buffer unpack reads
FieldOffset == [k \in 1..Len(dash_format) |-> SumWidths(dash_format, k - 1)]

-----------------------------------------------------------------------------
(* ForzaDataPacket: data[:232] + data[244:323], unpack, zip, to_dict *)

PrimaryLen == 232
GapEnd == 244
PacketEnd == 323

Min(a, b) == IF a < b THEN a ELSE b
Max(a, b) == IF a > b THEN a ELSE b

\* Python's data[lo:hi] on a byte string (0-based, hi exclusive, clipped)
Slice(data, lo, hi) == SubSeq(data, lo + 1, Min(hi, Len(data)))

\* the little-endian number in `width` bytes of buf from 0-based offset off
LittleEndian(buf, off, width, signed) ==
    LET b(k) == buf[off + k + 1]
        top == IF signed /\ b(width - 1) >= 128 THEN b(width - 1) - 256 ELSE b(width - 1)
    IN  CASE width = 1 -> top
          [] width = 2 -> b(0) + 256 * top
          [] width = 4 -> b(0) + 256 * b(1) + 65536 * b(2) + 16777216 * top

\* struct.unpack: one value per format character, or an error on a wrong length
unpack(fmt, buf) ==
    IF Len(buf) # calcsize(fmt)
    THEN [ok |-> FALSE, vals |-> <<>>]
    ELSE [ok |-> TRUE,
          vals |-> [k \in 1..Len(fmt) |->
                      LittleEndian(buf, FieldOffset[k], FieldWidth(fmt[k]),
                                   FieldSigned(fmt[k]))]]

\* mutant of PatchedData: the reserved bytes are not skipped
PatchedData_keepsGap(data) ==
    Slice(data, 0, PrimaryLen) \o Slice(data, PrimaryLen, PrimaryLen + (PacketEnd - GapEnd))

PatchedData(data) == Slice(data, 0, PrimaryLen) \o Slice(data, GapEnd, PacketEnd)

\* zip(get_props(), vals): stops at the shorter of the two
Zip(names, vals) == [k \in 1..Min(Len(names), Len(vals)) |-> <<names[k], vals[k]>>]

\* mutant of ForzaDataPacket: the length check is off by one
ForzaDataPacket_offByOne(data) ==
    IF Len(data) < PrimaryLen - 1
    THEN [ok |-> FALSE, error |-> "Incomplete packet received", frame |-> <<>>]
    ELSE LET u == unpack(dash_format, PatchedData(data))
         IN  IF ~u.ok
             THEN [ok |-> FALSE, error |-> "Unpack failed", frame |-> <<>>]
             ELSE [ok |-> TRUE, error |-> "", frame |-> Zip(get_props, u.vals)]

\* ForzaDataPacket(data).to_dict(): the Frame as an ordered list of
\* <<channel, value>>, or the ValueError the constructor raises
ForzaDataPacket(data) ==
    IF Len(data) < PrimaryLen
    THEN [ok |-> FALSE, error |-> "Incomplete packet received", frame |-> <<>>]
    ELSE LET u == unpack(dash_format, PatchedData(data))
         IN  IF ~u.ok
             THEN [ok |-> FALSE, error |-> "Unpack failed", frame |-> <<>>]
             ELSE [ok |-> TRUE, error |-> "", frame |-> Zip(get_props, u.vals)]

-----------------------------------------------------------------------------
(* The packets the game sends: the two blocks packed in wire layout around  *)
(* the 12 reserved bytes, one trailing pad byte, cut to the datagram length *)

\* the value the game puts in field k of packet number seq
GameField(k, seq) ==
    IF k = 2 THEN seq ELSE ((3 * k + 5 * seq) % 11) - 2

\* byte j (0-based) of the little-endian two's complement encoding of v
ByteOf(v, j) == (v \div (256 ^ j)) % 256

\* byte at 0-based offset o of the full packet number seq
GameByte(o, seq) ==
    LET p == IF o < PrimaryLen THEN o ELSE o - (GapEnd - PrimaryLen)
        k == CHOOSE f \in 1..Len(dash_format) :
                 FieldOffset[f] <= p /\ p < FieldOffset[f] + FieldWidth(dash_format[f])
    IN  IF (o >= PrimaryLen /\ o < GapEnd) \/ o >= PacketEnd
        THEN 170
        ELSE ByteOf(GameField(k, seq), p - FieldOffset[k])

GamePacket == [seq \in 1..(MaxSeq + MaxDatagrams + 1) |->
                  [j \in 1..MaxPacketLen |-> GameByte(j - 1, seq)]]

\* the datagram of `len` bytes cut from packet number seq
Datagram(len, seq) == SubSeq(GamePacket[seq], 1, len)

NoResult == [ok |-> FALSE, error |-> "none", frame |-> <<>>]

-----------------------------------------------------------------------------
(* ForzaTelemetryApp._setup_charts: the chart keys, in the order the        *)
(* categories insert them into self.charts (and so into self.data_buffer)   *)

ChartKeys == <<
    "current_engine_rpm", "engine_idle_rpm", "power", "torque", "speed", "boost",
    "norm_suspension_travel_FL", "norm_suspension_travel_FR",
    "norm_suspension_travel_RL", "norm_suspension_travel_RR",
    "suspension_travel_meters_FL", "suspension_travel_meters_FR",
    "suspension_travel_meters_RL", "suspension_travel_meters_RR",
    "accel", "brake", "clutch", "handbrake", "gear", "steer",
    "tire_slip_ratio_FL", "tire_slip_ratio_FR",
    "tire_slip_ratio_RL", "tire_slip_ratio_RR",
    "tire_temp_FL", "tire_temp_FR",
    "tire_temp_RL", "tire_temp_RR",
    "position_x", "position_z", "acceleration_x", "acceleration_z",
    "velocity_x", "velocity_z" >>

Range(s) == {s[k] : k \in 1..Len(s)}

ChartKeySet == Range(ChartKeys)

\* dict lookup in an ordered list of <<key, value>> pairs
HasKey(d, key) == \E k \in 1..Len(d) : d[k][1] = key
Lookup(d, key) == d[CHOOSE k \in 1..Len(d) : d[k][1] = key][2]

\* buffer_data.patch_map: the transform bound to a channel (identity if none);
\* results that Python holds as floats are in thousandths
PatchValue(key, val) ==
    CASE key \in {"accel", "brake", "clutch", "handbrake"} -> (val * 100 * 1000) \div 255
      [] key = "steer" -> (val * 100 * 1000) \div 127
      [] key = "speed" -> (val * 223694) \div 100000
      [] key = "power" -> (val * 10) \div 7457
      [] key \in {"torque", "boost"} -> Max(val, 0)
      [] OTHER -> val

\* buffer_data: raw_snapshot, the ordered dict of transformed values of the
\* channels of the Frame that have a chart (every decoded value is a number)
RawSnapshot(data) ==
    LET kept == SelectSeq(data, LAMBDA e : e[1] \in ChartKeySet)
    IN  [k \in 1..Len(kept) |-> <<kept[k][1], PatchValue(kept[k][1], kept[k][2])>>]

\* csv.writer: the text of one numeric field
CsvField(v) == ToString(v)

\* datetime.now().isoformat(): the wall clock is outside the model
Timestamp == "now"

\* mutant of LogRow: the fields follow the snapshot, not data_buffer's keys
LogRow_snapshotOrder(data_dict) ==
    <<Timestamp>> \o [k \in 1..Len(data_dict) |-> CsvField(data_dict[k][2])]

\* _log_to_file: the row written for a snapshot, one field per data_buffer key
LogRow(data_dict) ==
    <<Timestamp>> \o
    [k \in 1..Len(ChartKeys) |->
        IF HasKey(data_dict, ChartKeys[k])
        THEN CsvField(Lookup(data_dict, ChartKeys[k]))
        ELSE ""]

\* _start_logging: headers
Headers == <<"timestamp">> \o ChartKeys

-----------------------------------------------------------------------------
(* TelemetryChart: data is a deque(maxlen), axis_y the displayed range *)

DefaultBufferLen == 150

\* the last n elements of s
LastN(s, n) == IF Len(s) <= n THEN s ELSE SubSeq(s, Len(s) - n + 1, Len(s))

NewChart == [data |-> <<>>, maxlen |-> DefaultBufferLen,
             buffer_len |-> DefaultBufferLen, axis_y |-> <<>>, axis_x |-> <<>>]

SeqMin(s) == CHOOSE x \in Range(s) : \A y \in Range(s) : x <= y
SeqMax(s) == CHOOSE x \in Range(s) : \A y \in Range(s) : x >= y

\* a chart value in thousandths: 'gear' is the one charted channel that stays
\* a Python int
Thousandths(key, v) == IF key = "gear" THEN v * 1000 ELSE v

\* mutant of add_values: a full deque drops the newest values
add_values_keepsOldest(key, chart, vals) ==
    LET all == chart.data \o vals
        data == SubSeq(all, 1, Min(Len(all), chart.maxlen))
        mn == Thousandths(key, SeqMin(data))
        mx == Thousandths(key, SeqMax(data))
    IN  IF data = <<>>
        THEN [chart EXCEPT !.data = data]
        ELSE [chart EXCEPT !.data = data,
                           !.axis_y = IF mn = mx THEN <<mn - 100, mx + 100>> ELSE <<mn, mx>>,
                           !.axis_x = <<0, Len(data)>>]

\* TelemetryChart.add_values
add_values(key, chart, vals) ==
    LET data == LastN(chart.data \o vals, chart.maxlen)
        mn == Thousandths(key, SeqMin(data))
        mx == Thousandths(key, SeqMax(data))
    IN  IF data = <<>>
        THEN [chart EXCEPT !.data = data]
        ELSE [chart EXCEPT !.data = data,
                           !.axis_y = IF mn = mx THEN <<mn - 100, mx + 100>> ELSE <<mn, mx>>,
                           !.axis_x = <<0, Len(data)>>]

\* mutant of set_buffer_len: the oldest values are kept
set_buffer_len_keepsOldest(chart, length) ==
    [chart EXCEPT !.buffer_len = length,
                  !.data = SubSeq(chart.data, 1, Min(Len(chart.data), length)),
                  !.maxlen = length]

\* TelemetryChart.set_buffer_len, for a positive length: list(data)[-length:]
\* in a new deque of that maxlen; the series and the axes are not touched
set_buffer_len(chart, length) ==
    [chart EXCEPT !.buffer_len = length,
                  !.data = LastN(chart.data, length),
                  !.maxlen = length]

-----------------------------------------------------------------------------
(* State after construction *)

Threads == 1..MaxThreads

\* the lengths of the datagrams the socket delivers: empty, cut short inside
\* the primary block, cut short inside the secondary block, exact, padded
DatagramLens == {0, 231, 232, 322, 323, 324}

\* the decode of every datagram the receive loop can be handed
Decoded == [len \in DatagramLens, seq \in 1..(MaxDatagrams + 1) |->
               ForzaDataPacket(Datagram(len, seq))]

\* the Frame of packet number seq, decoded from the full datagram
FrameOf(seq) == Decoded[324, seq].frame

\* before open_log_file ran: the attributes replay_data and slider do not exist
NoReplay == [loaded |-> FALSE, rows |-> <<>>]
NoSlider == [exists |-> FALSE, minimum |-> 0, maximum |-> 0, value |-> 0]

InitCommon ==
    /\ running = FALSE
    /\ sock = 0
    /\ thread = 0
    /\ pc = [t \in Threads |-> "unborn"]
    /\ sockState = [t \in Threads |-> "none"]
    /\ sockShut = {}
    /\ queue = <<>>
    /\ reported = <<>>
    /\ received = -1
    /\ nDatagrams = 0
    /\ nFaults = 0
    /\ handedOff = <<>>
    /\ consumed = <<>>
    /\ sample_count = 0
    /\ data_buffer = [k \in ChartKeySet |-> <<>>]
    /\ charts = [k \in ChartKeySet |-> NewChart]
    /\ timerActive = FALSE
    /\ logging_enabled = FALSE
    /\ log_file = "none"
    /\ csv_writer = FALSE
    /\ fileRows = <<>>
    /\ logged = <<>>
    /\ toggle_checked = FALSE
    /\ replay_data = NoReplay
    /\ slider = NoSlider
    /\ window = NewChart
    /\ fed = <<>>
    /\ fresh = TRUE

Init ==
    /\ raw = <<>>
    /\ result = NoResult
    /\ InitCommon

\* log.info / log.error / log_message.emit / self.log of one handler
Report(msgs) == reported' = msgs

\* a step that reports nothing
Silent == Report(<<>>)

\* a step in which recvfrom returns no datagram
NoDatagram == received' = -1

-----------------------------------------------------------------------------
(* TelemetryReceiver.start / stop *)

\* whether start() creates a thread
StartsThread == ~running

\* TelemetryReceiver.start: state change, given the id t of the new thread
receiver_start(t) ==
    IF running
    THEN UNCHANGED <<running, thread, pc>>
    ELSE /\ running' = TRUE
         /\ thread' = t
         /\ pc' = [pc EXCEPT ![t] = "create"]

receiver_start_msgs == IF running THEN <<>> ELSE <<"Started UDP listener">>

\* TelemetryReceiver.stop: shutdown() then close() of self.sock, any exception
\* swallowed.  closed selects the run in which shutdown() returns and close()
\* is reached; otherwise shutdown() raises (the datagram socket is not
\* connected), close() is skipped and the read side is left shut down.
receiver_stop(closed) ==
    /\ running' = FALSE
    /\ IF sock = 0 \/ sockState[sock] = "closed"
       THEN UNCHANGED <<sockState, sockShut>>
       ELSE IF closed
            THEN /\ sockState' = [sockState EXCEPT ![sock] = "closed"]
                 /\ UNCHANGED sockShut
            ELSE /\ sockShut' = sockShut \cup {sock}
                 /\ UNCHANGED sockState
    /\ UNCHANGED <<sock, thread, pc>>

-----------------------------------------------------------------------------
(* TelemetryReceiver._listen_loop, one action per step of thread t *)

\* except Exception of the set-up block: entered on a failed socket(), bind()
\* or settimeout()
SetupFailed(t) == pc' = [pc EXCEPT ![t] = "failed"]

\* self.sock = socket.socket(...): the socket object self.sock named before
\* loses its last reference and is closed by the runtime
ListenCreate(t) ==
    /\ pc[t] = "create"
    /\ \/ /\ sock' = t
          /\ sockState' = [s \in Threads |->
                              IF s = t THEN "open"
                              ELSE IF s = sock /\ sockState[s] # "none" THEN "closed"
                              ELSE sockState[s]]
          /\ pc' = [pc EXCEPT ![t] = "bind"]
          /\ UNCHANGED nFaults
       \/ /\ nFaults < MaxFaults
          /\ nFaults' = nFaults + 1
          /\ SetupFailed(t)
          /\ UNCHANGED <<sock, sockState>>
    /\ Silent
    /\ UNCHANGED <<running, thread, sockShut, queue, nDatagrams,
                   histVars, appVars, logVars, decodeVars, restVars>>
    /\ NoDatagram

\* whether self.sock.bind((ip, port)) can succeed: the socket is open and not
\* bound, and no other socket of the process holds the port
CanBind(s) ==
    /\ sockState[s] = "open"
    /\ \A o \in Threads : sockState[o] # "bound"

ListenBind(t) ==
    /\ pc[t] = "bind"
    /\ \/ /\ CanBind(sock)
          /\ sockState' = [sockState EXCEPT ![sock] = "bound"]
          /\ pc' = [pc EXCEPT ![t] = "settimeout"]
          /\ UNCHANGED nFaults
       \/ /\ ~CanBind(sock)
          /\ SetupFailed(t)
          /\ UNCHANGED <<sockState, nFaults>>
       \/ /\ CanBind(sock)
          /\ nFaults < MaxFaults
          /\ nFaults' = nFaults + 1
          /\ SetupFailed(t)
          /\ UNCHANGED sockState
    /\ Silent
    /\ UNCHANGED <<running, sock, thread, sockShut, queue, nDatagrams,
                   histVars, appVars, logVars, decodeVars, restVars>>
    /\ NoDatagram

ListenSetTimeout(t) ==
    /\ pc[t] = "settimeout"
    /\ IF sockState[sock] = "closed"
       THEN SetupFailed(t)
       ELSE pc' = [pc EXCEPT ![t] = "while"]
    /\ Silent
    /\ UNCHANGED <<running, sock, thread, sockState, sockShut, queue, envVars, histVars, appVars, logVars, decodeVars, restVars>>
    /\ NoDatagram

\* the except block of the set-up: report, self._running = False, return
ListenSetupExcept(t) ==
    /\ pc[t] = "failed"
    /\ Report(<<"Socket error">>)
    /\ running' = FALSE
    /\ pc' = [pc EXCEPT ![t] = "done"]
    /\ UNCHANGED <<sock, thread, sockState, sockShut, queue, envVars,
                   histVars, appVars, logVars, decodeVars, restVars>>
    /\ NoDatagram

\* mutant of KeepsLooping: while True
KeepsLooping_always == TRUE

\* the loop condition
KeepsLooping == running

\* while self._running
ListenWhile(t) ==
    /\ pc[t] = "while"
    /\ pc' = [pc EXCEPT ![t] = IF KeepsLooping THEN "recv" ELSE "done"]
    /\ Silent
    /\ UNCHANGED <<running, sock, thread, sockState, sockShut, queue, envVars, histVars, appVars, logVars, decodeVars, restVars>>
    /\ NoDatagram

\* mutant of Emit: the newest emission is delivered first
Emit_front(q, frame) == <<frame>> \o q

\* self.data_received.emit(frame): the call is queued for the consumer thread
Emit(q, frame) == Append(q, frame)

\* mutant of Received: a decode error is not caught and ends the thread
Received_uncaught(t, data) ==
    LET packet == data
    IN  IF packet.ok
        THEN /\ pc' = [pc EXCEPT ![t] = "while"]
             /\ queue' = Emit(queue, packet.frame)
             /\ handedOff' = Append(handedOff, Lookup(packet.frame, "timestamp_ms"))
             /\ Silent
        ELSE /\ pc' = [pc EXCEPT ![t] = "done"]
             /\ Report(<<"Recv error">>)
             /\ UNCHANGED <<queue, handedOff>>

\* the body of the loop after recvfrom returned data: decode, then emit, or
\* except Exception: report and go round again
Received(t, data) ==
    LET packet == data
    IN  /\ pc' = [pc EXCEPT ![t] = "while"]
        /\ IF packet.ok
           THEN /\ queue' = Emit(queue, packet.frame)
                /\ handedOff' = Append(handedOff, Lookup(packet.frame, "timestamp_ms"))
                /\ Silent
           ELSE /\ Report(<<"Recv error">>)
                /\ UNCHANGED <<queue, handedOff>>

\* recvfrom returns a datagram of the game
ListenRecvData(t) ==
    /\ pc[t] = "recv"
    /\ sockState[sock] = "bound"
    /\ sock \notin sockShut
    /\ nDatagrams < MaxDatagrams
    /\ nDatagrams' = nDatagrams + 1
    /\ \E len \in DatagramLens :
          /\ received' = len
          /\ Received(t, Decoded[len, nDatagrams + 1])
    /\ UNCHANGED <<running, sock, thread, sockState, sockShut, nFaults, consumed,
                   appVars, logVars, decodeVars, restVars>>

\* recvfrom on a socket whose read side was shut down returns no bytes
ListenRecvShut(t) ==
    /\ pc[t] = "recv"
    /\ sockState[sock] \in {"open", "bound"}
    /\ sock \in sockShut
    /\ received' = 0
    /\ Received(t, ForzaDataPacket(<<>>))
    /\ UNCHANGED <<running, sock, thread, sockState, sockShut, envVars, consumed,
                   appVars, logVars, decodeVars, restVars>>

\* except socket.timeout: continue
ListenRecvTimeout(t) ==
    /\ pc[t] = "recv"
    /\ sockState[sock] = "bound"
    /\ sock \notin sockShut
    /\ pc' = [pc EXCEPT ![t] = "while"]
    /\ Silent
    /\ UNCHANGED <<running, sock, thread, sockState, sockShut, queue, envVars, histVars, appVars, logVars, decodeVars, restVars>>
    /\ NoDatagram

\* recvfrom raises OSError: the socket is closed or was never bound, or the
\* network stack reports an error on a good socket
ListenRecvOSError(t) ==
    /\ pc[t] = "recv"
    /\ \/ /\ \/ sockState[sock] = "closed"
             \/ sockState[sock] = "open" /\ sock \notin sockShut
          /\ UNCHANGED nFaults
       \/ /\ sockState[sock] = "bound"
          /\ sock \notin sockShut
          /\ nFaults < MaxFaults
          /\ nFaults' = nFaults + 1
    /\ pc' = [pc EXCEPT ![t] = "oserr"]
    /\ Silent
    /\ UNCHANGED <<running, sock, thread, sockState, sockShut, queue, nDatagrams, histVars, appVars, logVars, decodeVars, restVars>>
    /\ NoDatagram

\* whether the except OSError block leaves the loop
BreaksOnOSError == ~running

\* except OSError: break if stopping, else report (and go round again)
ListenOSErrorExcept(t) ==
    /\ pc[t] = "oserr"
    /\ IF BreaksOnOSError
       THEN /\ pc' = [pc EXCEPT ![t] = "done"]
            /\ Silent
       ELSE /\ pc' = [pc EXCEPT ![t] = "while"]
            /\ Report(<<"Recv OSError">>)
    /\ UNCHANGED <<running, sock, thread, sockState, sockShut, queue, envVars,
                   histVars, appVars, logVars, decodeVars, restVars>>
    /\ NoDatagram

-----------------------------------------------------------------------------
(* ForzaTelemetryApp: the handlers of the consumer (GUI) thread *)

\* ForzaTelemetryApp.start: receiver.start(), update_timer.start()
Start ==
    /\ StartsThread => \E t \in Threads : pc[t] = "unborn"
    /\ LET t == IF StartsThread
                THEN CHOOSE u \in Threads :
                         pc[u] = "unborn" /\ \A v \in Threads : pc[v] = "unborn" => u <= v
                ELSE 0
       IN  receiver_start(t)
    /\ timerActive' = TRUE
    /\ Report(receiver_start_msgs \o <<"Telemetry capture started.">>)
    /\ UNCHANGED <<sock, sockState, sockShut, queue, envVars, histVars,
                   sample_count, data_buffer, charts, logVars, decodeVars, restVars>>
    /\ NoDatagram

\* whether close() of the log file can raise in this call of _stop_logging
CloseCanFail == logging_enabled /\ log_file = "open" /\ nFaults < MaxFaults

\* _stop_logging: under csv_lock, close the file, drop the file and the
\* writer, clear the flag.  fails selects the run in which close() raises: the
\* file object is closed all the same, and the three assignments are skipped.
stop_logging(fails) ==
    IF ~logging_enabled
    THEN UNCHANGED logVars
    ELSE IF fails
         THEN /\ log_file' = "closed"
              /\ UNCHANGED <<csv_writer, logging_enabled, fileRows, logged>>
         ELSE /\ log_file' = "none"
              /\ csv_writer' = FALSE
              /\ logging_enabled' = FALSE
              /\ UNCHANGED <<fileRows, logged>>

stop_logging_msgs(fails) ==
    IF ~logging_enabled THEN <<>>
    ELSE IF fails THEN <<"Failed to stop logging">>
    ELSE <<"Data logging stopped.">>

\* ForzaTelemetryApp.stop: receiver.stop(), update_timer.stop(), stop the log
\* if it is on, then chart.data.clear() and chart.add_values([]) on every chart
Stop ==
    /\ \E closed \in BOOLEAN : receiver_stop(closed)
    /\ timerActive' = FALSE
    /\ \E fails \in BOOLEAN :
          /\ fails => CloseCanFail
          /\ stop_logging(fails)
          /\ nFaults' = IF fails THEN nFaults + 1 ELSE nFaults
          /\ Report(<<"Stopped UDP listener", "Telemetry capture stopped.">>
                        \o stop_logging_msgs(fails))
    /\ charts' = [k \in ChartKeySet |->
                     add_values(k, [charts[k] EXCEPT !.data = <<>>], <<>>)]
    /\ UNCHANGED <<queue, nDatagrams, histVars, sample_count, data_buffer,
                   decodeVars, restVars>>
    /\ NoDatagram

\* mutant of start_logging: no early return while logging is on
start_logging_reopens ==
    \/ /\ log_file' = "open"
       /\ csv_writer' = TRUE
       /\ fileRows' = <<Headers>>
       /\ logged' = <<>>
       /\ logging_enabled' = TRUE
       /\ Report(<<"Data logging started">>)
       /\ UNCHANGED nFaults
    \/ /\ nFaults < MaxFaults
       /\ nFaults' = nFaults + 1
       /\ Report(<<"Failed to start logging">>)
       /\ UNCHANGED logVars

\* _start_logging: open a new file, write the header row; an exception of
\* open() is reported and leaves logging off
start_logging ==
    IF logging_enabled
    THEN /\ Silent
         /\ UNCHANGED <<logVars, nFaults>>
    ELSE \/ /\ log_file' = "open"
            /\ csv_writer' = TRUE
            /\ fileRows' = <<Headers>>
            /\ logged' = <<>>
            /\ logging_enabled' = TRUE
            /\ Report(<<"Data logging started">>)
            /\ UNCHANGED nFaults
         \/ /\ nFaults < MaxFaults
            /\ nFaults' = nFaults + 1
            /\ Report(<<"Failed to start logging">>)
            /\ UNCHANGED logVars

\* ForzaTelemetryApp.toggle_logging(checked), the slot of the checkable button
\* btn_toggle_log: a click flips the button and passes its new state
ToggleLogging ==
    /\ toggle_checked' = ~toggle_checked
    /\ LET checked == ~toggle_checked
       IN  IF checked
           THEN start_logging
           ELSE \E fails \in BOOLEAN :
                   /\ fails => CloseCanFail
                   /\ stop_logging(fails)
                   /\ nFaults' = IF fails THEN nFaults + 1 ELSE nFaults
                   /\ Report(stop_logging_msgs(fails))
    /\ UNCHANGED <<recvVars, queue, nDatagrams, histVars, appVars, decodeVars,
                   replayVars, winVars>>
    /\ NoDatagram

\* mutant of WriteRow: the row is written twice
WriteRow_twice(rows, data_dict) == Append(Append(rows, LogRow(data_dict)), LogRow(data_dict))

\* the rows of the file after _log_to_file wrote the row of data_dict
WriteRow(rows, data_dict) == Append(rows, LogRow(data_dict))

\* the queued call the consumer thread runs next, and the calls left queued
NextCall(q) == Head(q)
AfterCall(q) == Tail(q)

\* buffer_data's loop: the pending values with the snapshot's values appended
Buffered(buf, snapshot) ==
    [k \in ChartKeySet |->
        IF HasKey(snapshot, k) THEN Append(buf[k], Lookup(snapshot, k)) ELSE buf[k]]

\* mutant of StoreOpen: a file that was closed still takes rows
StoreOpen_ignored == TRUE

\* whether writerow() reaches the file: a closed file object raises ValueError
StoreOpen == log_file = "open"

\* ForzaTelemetryApp.buffer_data, run by the consumer thread for the oldest
\* queued emission of data_received.  _log_to_file has no handler of its own:
\* an exception of writerow()/flush() leaves buffer_data after the values
\* were buffered, before the sample summary, and is printed by the slot
\* machinery, not reported through log.
BufferData ==
    /\ queue # <<>>
    /\ LET data == NextCall(queue)
           snapshot == RawSnapshot(data)
           ts == Lookup(data, "timestamp_ms")
           summary == IF (sample_count + 1) % 100 = 0 THEN <<"Sample">> ELSE <<>>
       IN  /\ queue' = AfterCall(queue)
           /\ consumed' = Append(consumed, ts)
           /\ sample_count' = sample_count + 1
           /\ data_buffer' = Buffered(data_buffer, snapshot)
           /\ IF logging_enabled /\ csv_writer
              THEN \/ /\ StoreOpen
                      /\ fileRows' = WriteRow(fileRows, snapshot)
                      /\ logged' = Append(logged, <<ts, TRUE>>)
                      /\ Report(summary)
                      /\ UNCHANGED nFaults
                   \/ /\ StoreOpen
                      /\ nFaults < MaxFaults
                      /\ nFaults' = nFaults + 1
                      /\ logged' = Append(logged, <<ts, FALSE>>)
                      /\ Silent
                      /\ UNCHANGED <<fileRows>>
                   \/ /\ ~StoreOpen
                      /\ logged' = Append(logged, <<ts, FALSE>>)
                      /\ Silent
                      /\ UNCHANGED <<fileRows, nFaults>>
              ELSE /\ Report(summary)
                   /\ UNCHANGED <<fileRows, logged, nFaults>>
    /\ UNCHANGED <<recvVars, nDatagrams, handedOff, charts, timerActive,
                   logging_enabled, log_file, csv_writer, decodeVars, restVars>>
    /\ NoDatagram

\* mutant of FlushChart: the oldest pending value is lost
FlushChart_dropsFirst(key, chart, vals) ==
    IF vals # <<>> THEN add_values(key, chart, Tail(vals)) ELSE chart

\* flush_data_buffer, for one key: the chart after the tick
FlushChart(key, chart, vals) ==
    IF vals # <<>> THEN add_values(key, chart, vals) ELSE chart

\* ForzaTelemetryApp.flush_data_buffer, on a tick of update_timer
Flush ==
    /\ timerActive
    /\ charts' = [k \in ChartKeySet |-> FlushChart(k, charts[k], data_buffer[k])]
    /\ data_buffer' = [k \in ChartKeySet |-> <<>>]
    /\ Silent
    /\ UNCHANGED <<recvVars, queue, envVars, histVars, sample_count,
                   timerActive, logVars, decodeVars, restVars>>
    /\ NoDatagram

-----------------------------------------------------------------------------
(* Texts and numbers: csv.writer writes str(value); float(text) and          *)
(* int(text) read a number back or raise ValueError                          *)

\* the numbers of an archived log
ArchiveNumbers == {3, 4, 1000, 2000}

\* the numbers whose text occurs in a file or in the buffer length input
FileNumbers ==
    (-1 .. 2) \cup ArchiveNumbers
        \cup {RawSnapshot(FrameOf(seq))[k][2] :
                 seq \in 1..(MaxDatagrams + 1), k \in 1..Len(ChartKeys)}

\* float(text) / int(text) on the text of a number
ParseTable ==
    [t \in {CsvField(n) : n \in FileNumbers} |->
        CHOOSE n \in FileNumbers : CsvField(n) = t]

\* whether float(text) / int(text) returns (else it raises ValueError)
IsNumeric(text) == text \in DOMAIN ParseTable

-----------------------------------------------------------------------------
(* ForzaTelemetryApp.update_buffer_len *)

\* what the user may have typed into buffer_len_input
BufferLenTexts == {"abc", "0", "1"}

UpdateBufferLen ==
    /\ \E text \in BufferLenTexts :
          IF IsNumeric(text) /\ ParseTable[text] > 0
          THEN /\ charts' = [k \in ChartKeySet |->
                                set_buffer_len(charts[k], ParseTable[text])]
               /\ Report(<<"Chart buffer length set">>)
          ELSE /\ Report(<<"Invalid buffer length">>)
               /\ UNCHANGED charts
    /\ UNCHANGED <<recvVars, queue, envVars, histVars, sample_count, data_buffer,
                   timerActive, logVars, decodeVars, restVars>>
    /\ NoDatagram

-----------------------------------------------------------------------------
(* Replay: open_log_file, the slider, update_replay_frame *)

\* the log of an earlier session that lies on disk: a channel left empty, a
\* field that is not a number
ArchiveLog == <<
    <<"timestamp", "gear", "speed">>,
    <<Timestamp, CsvField(3), "">>,
    <<Timestamp, CsvField(4), CsvField(1000)>>,
    <<Timestamp, "x", CsvField(2000)>> >>

\* what a reader finds in the file of the current log: the header row stays
\* in the writer's buffer until the first flush() or the close()
OnDisk == IF log_file = "open" /\ Len(fileRows) = 1 THEN <<>> ELSE fileRows

\* the paths QFileDialog.getOpenFileName can return ("" when cancelled)
Paths == {"", "session", "archive"}

FileAt(path) == IF path = "session" THEN OnDisk ELSE ArchiveLog

\* list(csv.DictReader(f)): one dict per row after the header row
DictReader(file) ==
    IF file = <<>> THEN <<>>
    ELSE [i \in 1..(Len(file) - 1) |-> Zip(file[1], file[i + 1])]

\* replay_data[i].get(key, '')
FieldText(row, key) == IF HasKey(row, key) THEN Lookup(row, key) ELSE ""

ReplayWindowSize == 150

\* update_replay_frame, for one chart: the values of the rows start..index go
\* into a new deque, which add_values then extends by its own contents; a
\* ValueError (a field that is not a number, min() of no values) leaves the
\* chart as it is at that point
replay_chart(key, chart, rows, index) ==
    LET window_size == ReplayWindowSize
        start == Max(0, index - window_size + 1)
        end == index + 1
        texts == [j \in 1..Max(end - start, 0) |-> FieldText(rows[start + j], key)]
        bad == \E j \in 1..Len(texts) : texts[j] # "" /\ ~IsNumeric(texts[j])
        vals == [j \in 1..Len(texts) |->
                    IF texts[j] = "" THEN 0 ELSE ParseTable[texts[j]]]
        loaded == [chart EXCEPT !.data = LastN(vals, window_size),
                                !.maxlen = window_size]
        shown == add_values(key, loaded, loaded.data)
    IN  IF bad THEN chart
        ELSE IF shown.data = <<>> THEN shown
        ELSE [shown EXCEPT !.axis_x = <<0, Len(shown.data) - 1>>]

\* ForzaTelemetryApp.update_replay_frame(index), the slot of slider.valueChanged
update_replay_frame(chs, rows, index) ==
    IF index >= Len(rows)
    THEN chs
    ELSE [k \in ChartKeySet |-> replay_chart(k, chs[k], rows, index)]

\* QSlider(): range 0..99, value 0
NewSlider == [exists |-> TRUE, minimum |-> 0, maximum |-> 99, value |-> 0]

\* QSlider.setValue: the value bounded to the range
setValue(sl, v) == [sl EXCEPT !.value = Max(sl.minimum, Min(v, sl.maximum))]

\* QSlider.setMaximum: the minimum gives way, the value is bounded again
setMaximum(sl, m) ==
    setValue([sl EXCEPT !.minimum = Min(sl.minimum, m), !.maximum = m], sl.value)

\* the charts after valueChanged, if the value changed: update_replay_frame
Moved(chs, rows, before, after) ==
    IF after.value # before.value
    THEN update_replay_frame(chs, rows, after.value)
    ELSE chs

\* ForzaTelemetryApp.open_log_file
OpenLogFile(path) ==
    /\ path = "session" => fileRows # <<>>
    /\ \/ /\ path = ""
          /\ Silent
          /\ UNCHANGED <<charts, replayVars, nFaults>>
       \/ /\ path # ""
          /\ nFaults < MaxFaults
          /\ nFaults' = nFaults + 1
          /\ Report(<<"Failed to read log file">>)
          /\ UNCHANGED <<charts, replayVars>>
       \/ /\ path # ""
          /\ LET rows == DictReader(FileAt(path))
                 cleared == [k \in ChartKeySet |-> [charts[k] EXCEPT !.data = <<>>]]
                 s1 == setMaximum(slider, Len(rows) - 1)
                 c1 == Moved(cleared, rows, slider, s1)
                 s2 == setValue(s1, 0)
                 c2 == Moved(c1, rows, s1, s2)
             IN  /\ replay_data' = [loaded |-> TRUE, rows |-> rows]
                 /\ IF ~slider.exists
                    THEN /\ slider' = setMaximum(NewSlider, Len(rows) - 1)
                         /\ charts' = cleared
                    ELSE /\ slider' = s2
                         /\ charts' = c2
          /\ Report(<<"Loaded frames">>)
          /\ UNCHANGED nFaults
    /\ UNCHANGED <<recvVars, queue, nDatagrams, histVars, sample_count,
                   data_buffer, timerActive, logVars, decodeVars,
                   toggle_checked, winVars>>
    /\ NoDatagram

\* the user drags the slider to index: valueChanged runs update_replay_frame
ReplaySeek(index) ==
    /\ slider.exists
    /\ index \in slider.minimum .. slider.maximum
    /\ index # slider.value
    /\ slider' = setValue(slider, index)
    /\ charts' = update_replay_frame(charts, replay_data.rows, index)
    /\ Silent
    /\ UNCHANGED <<recvVars, queue, envVars, histVars, sample_count, data_buffer,
                   timerActive, logVars, decodeVars, replay_data,
                   toggle_checked, winVars>>
    /\ NoDatagram

\* the indexes a drag of the slider can end on
SliderIndexes == -1 .. MaxDatagrams

-----------------------------------------------------------------------------
(* One TelemetryChart on its own: set_buffer_len and add_values on inputs    *)
(* drawn from small sets                                                     *)

MaxCapacity == 2
MaxAppend == 2
MaxFed == 4

\* the values fed to the chart, in thousandths
Samples == {-1000, 0, 1000}

SeqsUpTo(S, n) == UNION {[1..m -> S] : m \in 0..n}

WinSetBufferLen ==
    /\ \E length \in 1..MaxCapacity :
          window' = set_buffer_len(window, length)
    /\ fresh' = (fresh /\ fed = <<>>)
    /\ Silent
    /\ NoDatagram
    /\ UNCHANGED <<fed, recvVars, queue, envVars, histVars, appVars, logVars,
                   decodeVars, toggle_checked, replayVars>>

WinAddValues ==
    /\ \E vals \in SeqsUpTo(Samples, MaxAppend) :
          /\ Len(fed) + Len(vals) <= MaxFed
          /\ window' = add_values("speed", window, vals)
          /\ fed' = fed \o vals
    /\ Silent
    /\ NoDatagram
    /\ UNCHANGED <<fresh, recvVars, queue, envVars, histVars, appVars, logVars,
                   decodeVars, toggle_checked, replayVars>>

-----------------------------------------------------------------------------
(* Specifications *)

ListenStep(t) ==
    \/ ListenCreate(t)
    \/ ListenBind(t)
    \/ ListenSetTimeout(t)
    \/ ListenSetupExcept(t)
    \/ ListenWhile(t)
    \/ ListenRecvData(t)
    \/ ListenRecvShut(t)
    \/ ListenRecvTimeout(t)
    \/ ListenRecvOSError(t)
    \/ ListenOSErrorExcept(t)

Next ==
    \/ Start
    \/ Stop
    \/ ToggleLogging
    \/ BufferData
    \/ Flush
    \/ UpdateBufferLen
    \/ \E path \in Paths : OpenLogFile(path)
    \/ \E index \in SliderIndexes : ReplaySeek(index)
    \/ \E t \in Threads : ListenStep(t)

Spec == Init /\ [][Next]_vars

\* the receiver alone: the handlers that start and stop it and its threads;
\* the other handlers of the consumer thread write none of its variables
RecvNext ==
    \/ Start
    \/ Stop
    \/ \E t \in Threads : ListenStep(t)

RecvSpec == Init /\ [][RecvNext]_vars

\* the consumer thread with the receive loop of the first thread only: a
\* later thread is started but not scheduled
AppNext ==
    \/ Start
    \/ Stop
    \/ ToggleLogging
    \/ BufferData
    \/ Flush
    \/ ListenStep(1)

AppSpec == Init /\ [][AppNext]_vars

\* the receiver with its threads scheduled fairly: a thread that can take a
\* step of _listen_loop takes it (recvfrom returns, at the latest on timeout)
FairRecvSpec == RecvSpec /\ \A t \in Threads : WF_vars(ListenStep(t))

\* one chart alone
WinNext ==
    \/ WinSetBufferLen
    \/ WinAddValues

WindowSpec == Init /\ [][WinNext]_vars

\* replay of an archived log, with the buttons around it
ReplayNext ==
    \/ Start
    \/ Stop
    \/ UpdateBufferLen
    \/ OpenLogFile("")
    \/ OpenLogFile("archive")
    \/ \E index \in SliderIndexes : ReplaySeek(index)

ReplaySpec == Init /\ [][ReplayNext]_vars

\* a live session in full flow: the first thread is in its loop on a bound
\* socket and has emitted a Frame for each datagram of the game, none of
\* which the consumer thread has handled yet
SessionInit ==
    /\ raw = <<>>
    /\ result = NoResult
    /\ running = TRUE
    /\ sock = 1
    /\ thread = 1
    /\ pc = [t \in Threads |-> IF t = 1 THEN "while" ELSE "unborn"]
    /\ sockState = [t \in Threads |-> IF t = 1 THEN "bound" ELSE "none"]
    /\ sockShut = {}
    /\ queue = [i \in 1..MaxDatagrams |-> FrameOf(i)]
    /\ reported = <<>>
    /\ received = 324
    /\ nDatagrams = MaxDatagrams
    /\ nFaults = 0
    /\ handedOff = [i \in 1..MaxDatagrams |-> i]
    /\ consumed = <<>>
    /\ sample_count = 0
    /\ data_buffer = [k \in ChartKeySet |-> <<>>]
    /\ charts = [k \in ChartKeySet |-> NewChart]
    /\ timerActive = TRUE
    /\ logging_enabled = FALSE
    /\ log_file = "none"
    /\ csv_writer = FALSE
    /\ fileRows = <<>>
    /\ logged = <<>>
    /\ toggle_checked = FALSE
    /\ replay_data = NoReplay
    /\ slider = NoSlider
    /\ window = NewChart
    /\ fed = <<>>
    /\ fresh = TRUE

\* the consumer thread in that session: logging, buffering, ticks, the
\* buffer length, and the replay of the session's own log
SessionNext ==
    \/ ToggleLogging
    \/ BufferData
    \/ Flush
    \/ UpdateBufferLen
    \/ OpenLogFile("session")
    \/ \E index \in SliderIndexes : ReplaySeek(index)

SessionSpec == SessionInit /\ [][SessionNext]_vars

\* the decoder alone, on every datagram length up to MaxPacketLen
DecodeInit ==
    /\ raw \in {Datagram(len, seq) : len \in 0..MaxPacketLen, seq \in 1..MaxSeq}
    /\ result = NoResult
    /\ InitCommon

Decode ==
    /\ result = NoResult
    /\ result' = ForzaDataPacket(raw)
    /\ Silent
    /\ NoDatagram
    /\ UNCHANGED <<raw, recvVars, queue, envVars, histVars, appVars, logVars, restVars>>

DecodeNext == Decode

DecodeSpec == DecodeInit /\ [][DecodeNext]_vars

-----------------------------------------------------------------------------
(* Properties of the decoder, under DecodeSpec *)

Decoded_done == result # NoResult

\* the names of a Frame, in its order
FrameKeys(frame) == [k \in 1..Len(frame) |-> frame[k][1]]

\* the place of Schema field k in the raw packet: the secondary block lies
\* behind the reserved bytes
WireOffset(k) ==
    IF k <= Len(sled_props) THEN FieldOffset[k] ELSE FieldOffset[k] + 12

\* C1: decoding a raw packet shorter than 232 bytes fails with the
\* incomplete-packet error and yields no Frame.
C1_ShortPacketIncomplete ==
    (Decoded_done /\ Len(raw) < 232) =>
        /\ ~result.ok
        /\ result.error = "Incomplete packet received"
        /\ result.frame = <<>>

C1_Witness == Decoded_done /\ Len(raw) = 231 /\ ~result.ok

\* C2 as stated: a raw packet of exactly the minimum length that passes the
\* incomplete-packet check (232 bytes) decodes into a Frame with one entry per
\* Schema channel in Schema order.
C2_Original ==
    (Decoded_done /\ Len(raw) = 232) =>
        /\ result.ok
        /\ FrameKeys(result.frame) = sled_props \o dash_props

\* C2 amended: a raw packet of at least 323 bytes decodes into a Frame with
\* one entry per Schema channel, in Schema order (primary block, then
\* secondary block), each value read from its place in the packet with the
\* reserved bytes skipped; a packet of 232 to 322 bytes passes the
\* incomplete-packet check and fails in unpack.
C2_FullPacketDecodes ==
    Decoded_done =>
        /\ Len(raw) >= 323 =>
              /\ result.ok
              /\ Len(result.frame) = Len(sled_props) + Len(dash_props)
              /\ FrameKeys(result.frame) = sled_props \o dash_props
              /\ \A k \in 1..Len(result.frame) :
                    result.frame[k][2] =
                        LittleEndian(raw, WireOffset(k), FieldWidth(dash_format[k]),
                                     FieldSigned(dash_format[k]))
        /\ (Len(raw) >= 232 /\ Len(raw) < 323) =>
              /\ ~result.ok
              /\ result.error = "Unpack failed"

C2_Witness == Decoded_done /\ Len(raw) = 323 /\ result.ok /\ Len(result.frame) = 85

-----------------------------------------------------------------------------
(* Properties of the receiver, under RecvSpec and FairRecvSpec *)

\* the threads that are inside _listen_loop
ActiveLoops == {t \in Threads : pc[t] \notin {"unborn", "done"}}

\* C3 as stated: whenever the Receiver reports itself as running, a socket
\* of it has been bound successfully.
C3_Original == running => \E s \in Threads : sockState[s] = "bound"

\* C4 as stated: at most one receive loop is active at any time, whatever
\* the sequence and interleaving of start() and stop().
C4_Original == Cardinality(ActiveLoops) <= 1

\* C5: once the Receiver is stopped, every receive loop still active exits,
\* unless start() is called again; no datagram needs to arrive.
C5_StopEndsLoop ==
    \A t \in Threads :
        (~running /\ t \in ActiveLoops) ~> (pc[t] = "done" \/ running)

\* a loop that got as far as its socket being closed under it has ended, the
\* Receiver is idle, and the thread's last step reported no error
C5_Witness ==
    /\ ~running
    /\ pc[1] = "done"
    /\ pc[2] = "unborn"
    /\ sockState[1] = "closed"
    /\ nFaults = 0
    /\ nDatagrams = 0
    /\ reported = <<>>

\* C6 as stated: a socket-level error in the receive loop while the Receiver
\* is running is reported, ends the loop and leaves the Receiver idle; while
\* stopping it ends the loop without a report.
C6_Original ==
    [][\A t \in Threads :
          (pc[t] = "oserr" /\ pc'[t] # "oserr") =>
              IF running
              THEN reported' = <<"Recv OSError">> /\ pc'[t] = "done" /\ ~running'
              ELSE reported' = <<>> /\ pc'[t] = "done"]_vars

\* C7: a step of the receive loop that receives a datagram which does not
\* decode reports the error, hands no Frame to the consumer, leaves the
\* Receiver's state as it was and returns to the head of the loop.
C7_DecodeFailureContinues ==
    [][\A t \in Threads :
          (/\ pc[t] = "recv"
           /\ pc'[t] # "recv"
           /\ received' >= 0
           /\ ~Decoded[received', IF nDatagrams' = 0 THEN 1 ELSE nDatagrams'].ok) =>
              /\ pc'[t] = "while"
              /\ reported' = <<"Recv error">>
              /\ queue' = queue
              /\ handedOff' = handedOff
              /\ running' = running
              /\ sock' = sock
              /\ thread' = thread
              /\ sockState' = sockState]_vars

\* a datagram long enough to pass the length check but too short to unpack was
\* received while running, and the loop is back at its head
C7_Witness ==
    /\ received = 232
    /\ reported = <<"Recv error">>
    /\ running
    /\ \E t \in Threads : pc[t] = "while"

-----------------------------------------------------------------------------
(* Properties of the hand-off and of the session log, under AppSpec *)

\* timestamp_ms of the Frames still queued for the consumer thread
QueuedStamps == [k \in 1..Len(queue) |-> Lookup(queue[k], "timestamp_ms")]

\* the transformed value of every charted channel in packet number seq
ValueOf == [seq \in 1..(MaxDatagrams + 1) |->
               [key \in ChartKeySet |-> PatchValue(key, Lookup(FrameOf(seq), key))]]

\* the transformed values of channel key in the Frames buffer_data handled
ConsumedValues(key) == [i \in 1..Len(consumed) |-> ValueOf[consumed[i]][key]]

\* what the chart and the pending buffer of channel key hold together
Held(key) == charts[key].data \o data_buffer[key]

\* C8: the Frames handled by buffer_data, followed by the Frames still
\* queued, are the Frames emitted by the receive loop in emission order; each
\* handled Frame was counted once and its values lie in the channel buffers
\* (or the charts they were flushed to) once, in that order.
C8_HandoffFifo ==
    /\ handedOff = consumed \o QueuedStamps
    /\ sample_count = Len(consumed)
    /\ \A key \in ChartKeySet :
          /\ Len(Held(key)) <= Len(consumed)
          /\ Held(key) = LastN(ConsumedValues(key), Len(Held(key)))

\* one Frame was handled while the next one emitted waits in the queue
C8_Witness ==
    /\ Len(consumed) = 1
    /\ Len(queue) = 1
    /\ handedOff = <<1, 2>>
    /\ data_buffer["gear"] # <<>>

\* the Frames ingested while logging was on whose row was written
Written == SelectSeq(logged, LAMBDA e : e[2])

\* C9: the file holds its header row and then exactly one row per Frame
\* ingested while logging was on (less those whose write raised an I/O
\* error), in ingestion order; flush ticks add no row.
C9_OneRowPerFrame ==
    /\ fileRows = <<>> => logged = <<>>
    /\ fileRows # <<>> =>
          /\ Len(fileRows) = 1 + Len(Written)
          /\ Len(fileRows) - 1 + Cardinality({i \in 1..Len(logged) : ~logged[i][2]})
                = Len(logged)
          /\ \A i \in 1..Len(Written) :
                fileRows[i + 1] = LogRow(RawSnapshot(FrameOf(Written[i][1])))

\* two Frames were logged and a flush tick ran in between or after
C9_Witness ==
    /\ logging_enabled
    /\ Len(fileRows) = 3
    /\ charts["gear"].data # <<>>

\* C10 as stated: the header row is "timestamp" followed by the Schema's
\* channel names in Schema order.
C10_Original ==
    fileRows # <<>> => fileRows[1] = <<"timestamp">> \o sled_props \o dash_props

\* C10 amended: the header row is "timestamp" followed by the names of the
\* charted channels in the order _setup_charts declares them, and every data
\* row holds, under each name of the header, the transformed value of that
\* channel in the row's Frame.
C10_HeaderIsChartKeys ==
    fileRows # <<>> =>
        /\ fileRows[1] = <<"timestamp">> \o ChartKeys
        /\ fileRows[1][2] = "current_engine_rpm"
        /\ fileRows[1][4] = "power"
        /\ Len(fileRows[1]) = 35
        /\ \A i \in 1..Len(Written) :
              /\ Len(fileRows[i + 1]) = Len(fileRows[1])
              /\ \A c \in 2..Len(fileRows[1]) :
                    fileRows[i + 1][c] = ToString(ValueOf[Written[i][1]][fileRows[1][c]])

C10_Witness == Len(fileRows) >= 2 /\ Len(Written) >= 1

-----------------------------------------------------------------------------
(* Properties of the flush tick, under AppSpec *)

\* C11: a tick of the scheduler appends, for every channel whose buffer entry
\* is not empty, the entry's values in arrival order to the channel's Window
\* (which evicts at its capacity) and empties the entry; a channel with an
\* empty entry keeps its Window and its entry, and a tick with nothing
\* buffered changes nothing.
C11_FlushTick ==
    [][Flush =>
          /\ \A key \in ChartKeySet :
                IF data_buffer[key] # <<>>
                THEN /\ charts'[key].data =
                           LastN(charts[key].data \o data_buffer[key],
                                 charts[key].maxlen)
                     /\ data_buffer'[key] = <<>>
                ELSE /\ charts'[key] = charts[key]
                     /\ data_buffer'[key] = data_buffer[key]
          /\ (\A key \in ChartKeySet : data_buffer[key] = <<>>) =>
                UNCHANGED <<charts, data_buffer, queue, sample_count,
                            timerActive, logVars>>]_vars

\* a tick moved two buffered Frames into the Windows, in arrival order
C11_Witness ==
    /\ \A key \in ChartKeySet : data_buffer[key] = <<>>
    /\ consumed = <<1, 2>>
    /\ \A key \in ChartKeySet : charts[key].data = ConsumedValues(key)

-----------------------------------------------------------------------------
(* Properties of one Window, under WindowSpec *)

\* the display range the contents of a Window call for (epsilon is 0.1)
RangeOf(data) ==
    IF SeqMin(data) = SeqMax(data)
    THEN <<SeqMin(data) - 100, SeqMax(data) + 100>>
    ELSE <<SeqMin(data), SeqMax(data)>>

\* C12: values appended, in one or several calls, to an empty Window of a
\* given capacity leave it holding the last `capacity` of them (all of them
\* if fewer) in arrival order.
C12_EvictsOldest ==
    fresh =>
        /\ window.maxlen = window.buffer_len
        /\ window.data = LastN(fed, window.buffer_len)
        /\ Len(window.data) = Min(Len(fed), window.buffer_len)

\* capacity + 2 values went into a Window of capacity 2, in at least two calls
C12_Witness ==
    /\ fresh
    /\ window.buffer_len = 2
    /\ Len(fed) = 4
    /\ window.data = <<fed[3], fed[4]>>
    /\ fed[2] # fed[4]

\* C13: set_buffer_len(n), n positive, on a Window holding m values leaves it
\* holding the most recent min(m, n) of them in their order, and a later
\* append evicts at capacity n.
C13_ResizeKeepsRecent ==
    [][/\ fed' = fed =>
             LET n == window'.buffer_len
             IN  /\ n > 0
                 /\ window'.maxlen = n
                 /\ window'.data = LastN(window.data, n)
                 /\ Len(window'.data) = Min(Len(window.data), n)
       /\ fed' # fed =>
             /\ window'.buffer_len = window.buffer_len
             /\ window'.data =
                   LastN(window.data \o SubSeq(fed', Len(fed) + 1, Len(fed')),
                         window.buffer_len)]_vars

\* a Window holding two values was cut to capacity 1 and kept the newer one;
\* its range still shows both
C13_Witness ==
    /\ ~fresh
    /\ window.buffer_len = 1
    /\ fed = <<-1000, 1000>>
    /\ window.data = <<1000>>
    /\ window.axis_y = <<-1000, 1000>>

\* C14 as stated: after any mutation that leaves a Window non-empty, its
\* display range is (min, max) of its contents, padded by epsilon on both
\* sides when min = max.
C14_Original == window.data # <<>> => window.axis_y = RangeOf(window.data)

-----------------------------------------------------------------------------
(* Properties of replay, under ReplaySpec and SessionSpec *)

\* a step in which the slider's value changed, so that valueChanged ran
\* update_replay_frame on the rows loaded before the step
SeekStep ==
    /\ slider.exists
    /\ slider'.exists
    /\ slider'.value # slider.value
    /\ replay_data' = replay_data

\* the stored value of channel key in a row, an empty field read as zero
StoredValue(row, key) ==
    IF FieldText(row, key) = "" THEN 0 ELSE ParseTable[FieldText(row, key)]

\* whether the fields of channel key in rows lo..hi are numbers or empty
Readable(rows, key, lo, hi) ==
    \A i \in lo..hi : FieldText(rows[i], key) = "" \/ IsNumeric(FieldText(rows[i], key))

\* C15 as stated: a seek to index, 0 <= index < N, sets each channel's Window
\* to the stored values of rows max(0, index - window_size + 1) .. index, in
\* row order (the trailing min(window_size, index + 1) rows), an empty field
\* read as zero.
C15_Original ==
    [][(SeekStep /\ slider'.value >= 0 /\ slider'.value < Len(replay_data.rows)) =>
          LET rows == replay_data.rows
              index == slider'.value
              start == Max(0, index - ReplayWindowSize + 1)
          IN  \A key \in ChartKeySet :
                 Readable(rows, key, start + 1, index + 1) =>
                     charts'[key].data =
                         [j \in 1..(index + 1 - start) |->
                             StoredValue(rows[start + j], key)]]_vars

\* the transformed values of channel key in the Frames of the log
LoggedValues(key) == [i \in 1..Len(logged) |-> ValueOf[logged[i][1]][key]]

\* C16 as stated: when N Frames were ingested with logging on and flushed,
\* and the log that resulted is loaded, a seek to index N - 1 gives every
\* channel the sequence of values the live Window of the configured size
\* holds for those Frames.
C16_Original ==
    [][(/\ SeekStep
        /\ Len(logged) >= 1
        /\ \A i \in 1..Len(logged) : logged[i][2]
        /\ consumed = [i \in 1..Len(logged) |-> logged[i][1]]
        /\ \A key \in ChartKeySet : data_buffer[key] = <<>>
        /\ replay_data.rows = DictReader(fileRows)
        /\ slider'.value = Len(logged) - 1) =>
          \A key \in ChartKeySet :
             charts'[key].data = LastN(LoggedValues(key), charts[key].buffer_len)]_vars

-----------------------------------------------------------------------------
(* Properties of the logger, under AppSpec *)

\* C17 as stated: when the write of a row raises an I/O error, the Frame's
\* values are in the channel buffers all the same, the failure is reported
\* and logging stays on.
C17_Original ==
    [][(/\ Len(logged') = Len(logged) + 1
        /\ ~logged'[Len(logged')][2]
        /\ log_file = "open") =>
          /\ \A key \in ChartKeySet :
                data_buffer'[key] =
                    Append(data_buffer[key], ValueOf[logged'[Len(logged')][1]][key])
          /\ reported' # <<>>
          /\ logging_enabled']_vars

IsPrefix(s, t) == Len(s) <= Len(t) /\ SubSeq(t, 1, Len(s)) = s

C19_LoggerReentry ==
    [][/\ (~logging_enabled /\ logging_enabled') =>
             /\ log_file' = "open"
             /\ csv_writer'
             /\ fileRows' = <<Headers>>
             /\ reported' = <<"Data logging started">>
       /\ (logging_enabled /\ ~logging_enabled') =>
             /\ log_file' = "none"
             /\ ~csv_writer'
             /\ fileRows' = fileRows
             /\ \E i \in 1..Len(reported') : reported'[i] = "Data logging stopped."
       /\ (logging_enabled /\ logging_enabled') =>
             /\ csv_writer'
             /\ log_file' = log_file \/ log_file' = "closed"
             /\ IsPrefix(fileRows, fileRows')
             /\ \A i \in (Len(fileRows) + 1)..Len(fileRows') : fileRows'[i] # Headers
             /\ \A i \in 1..Len(reported') : reported'[i] # "Data logging started"
       /\ (~logging_enabled /\ ~logging_enabled') =>
             /\ UNCHANGED <<log_file, csv_writer, fileRows>>
             /\ \A i \in 1..Len(reported') : reported'[i] # "Data logging stopped."]_vars

\* the button was clicked to start logging while logging was on (a stop
\* whose close() raised had left it on): the click changed nothing
C19_Witness ==
    /\ logging_enabled
    /\ toggle_checked
    /\ log_file = "closed"
    /\ reported = <<>>
    /\ ~timerActive
    /\ \A t \in Threads : pc[t] = "unborn"

\* C20 as stated: stop() leaves every channel buffer entry empty, and when
\* the next session starts no Frame of before is buffered or queued.
C20_Original ==
    [][/\ (\E i \in 1..Len(reported') : reported'[i] = "Telemetry capture stopped.") =>
             \A key \in ChartKeySet : data_buffer'[key] = <<>>
       /\ (~timerActive /\ timerActive') =>
             /\ \A key \in ChartKeySet : data_buffer'[key] = <<>>
             /\ queue' = <<>>]_vars

-----------------------------------------------------------------------------
(* Properties that span the handlers, under ReplaySpec and RecvSpec *)

\* C21 as stated: in every reachable state each Window holds at most the
\* configured capacity (the value set_buffer_len applied last, 150 at first)
\* of values, and the bound at which it evicts is that capacity.
C21_Original ==
    \A key \in ChartKeySet :
        /\ Len(charts[key].data) <= charts[key].buffer_len
        /\ charts[key].maxlen = charts[key].buffer_len

\* the Receiver is idle and no thread is inside _listen_loop
IdleAndExited == ~running /\ ActiveLoops = {}

\* C22 as stated: whenever the Receiver is idle and its receive loops have
\* exited, every socket a loop created is closed.
C22_Original ==
    IdleAndExited => \A s \in Threads : sockState[s] \in {"none", "closed"}

====
